---- MODULE Spec2Model ----
(***************************************************************************)
(* Model of the terminal task tracker of src/main.go: the App struct, the  *)
(* task table of src/init_db.sql, loadTasks, saveCurrentEdit and the key   *)
(* dispatch of App.Run.                                                    *)
(*                                                                         *)
(* Strings are sequences of one-character strings, so that appending a     *)
(* rune, dropping the last character and strings.HasPrefix are computed.   *)
(* Timestamps are whole days.  A float64 is the exact rational             *)
(* <<numerator, denominator>> in lowest terms.  A nullable column is <<>>  *)
(* (NULL) or <<v>>.  The column updated_at is written by every UPDATE but  *)
(* read by no query of the program; it is not part of the state.           *)
(***************************************************************************)
EXTENDS Integers, Sequences, FiniteSets, TLC

\* ------------------------------------------------------------------ bounds

\* Number of rows of the task table when the program starts.
MaxTasks == 3
\* Longest content buffer the keyboard input is allowed to build.
MaxLen == 1
\* Number of UPDATE statements one run may issue.
MaxWrites == 1

\* ----------------------------------------------------------------- strings

OPEN == <<"o", "p", "e", "n">>
IN_PROGRESS == <<"i", "n", "_", "p", "r", "o", "g", "r", "e", "s", "s">>
CLOSED == <<"c", "l", "o", "s", "e", "d">>
CANCELLED == <<"c", "a", "n", "c", "e", "l", "l", "e", "d">>

\* init_db.sql:7, the CHECK constraint of task_state, and main.go:311-316.
validStates == {OPEN, IN_PROGRESS, CLOSED, CANCELLED}

\* main.go:439, the same four words in the order isValidStateInput tries them.
validStateList == <<OPEN, IN_PROGRESS, CLOSED, CANCELLED>>

\* strings.HasPrefix(state, s)
HasPrefix(state, s) ==
    /\ Len(s) <= Len(state)
    /\ SubSeq(state, 1, Len(s)) = s

\* isValidStateInput with the arguments of strings.HasPrefix exchanged.
isValidStateInput_Swapped(s) ==
    \E i \in 1..Len(validStateList) : HasPrefix(s, validStateList[i])

\* main.go:438-446
isValidStateInput(s) ==
    \E i \in 1..Len(validStateList) : HasPrefix(validStateList[i], s)

\* Runes the keyboard delivers while the state column is edited: the
\* letters of open, closed and cancelled, and the quit rune 'q'.
StateRunes == {"o", "p", "e", "n", "c", "l", "s", "d", "a", "q"}

\* Runes the keyboard delivers while the content column is edited: 'q'.
ContentRunes == {"q"}

\* ------------------------------------------------------------------- store

\* Content of the row with the given id when the program starts.
InitContent(id) == <<<<"a">>, <<"b">>, <<"c">>, <<"d">>>>[id]

\* created_at of every row present at start, and the clock at start.
InitNow == 1

\* closed_at of the rows that are closed or cancelled at start
\* (init_db.sql:25-34 seeds them with a time before 'now').
InitClosedAt == 0

NULL == <<>>

RowOf(id, st) ==
    [ID |-> id, Content |-> InitContent(id), SPOC |-> <<"s">>, State |-> st,
     Created |-> InitNow,
     Closed |-> IF st \in {CLOSED, CANCELLED} THEN <<InitClosedAt>> ELSE NULL]

\* The task tables the program may find in ./mybase.db: MaxTasks rows with
\* ids 1..MaxTasks, each in one of the four states of the CHECK constraint.
InitStores ==
    { [id \in 1..MaxTasks |-> RowOf(id, f[id])] : f \in [1..MaxTasks -> validStates] }

\* ---------------------------------------------------------------- rationals

RECURSIVE GCD(_, _)
GCD(a, b) == IF b = 0 THEN a ELSE GCD(b, a % b)

Abs(a) == IF a < 0 THEN -a ELSE a

Rat(num, den) ==
    LET g == GCD(Abs(num), den)
    IN  <<num \div g, den \div g>>

\* The zero value of a float64.
ZeroFloat == <<0, 1>>

\* ----------------------------------------------------------------- queries

\* Rows of table s, ascending id, whose state is in the set sts
\* (main.go:91-97 and main.go:104-110: WHERE task_state IN (...) ORDER BY id).
RECURSIVE SelectRows(_, _, _)
SelectRows(s, sts, from) ==
    IF from > Len(s) THEN <<>>
    ELSE IF s[from].State \in sts
         THEN <<s[from]>> \o SelectRows(s, sts, from + 1)
         ELSE SelectRows(s, sts, from + 1)

\* The active list's query without its WHERE: every row of the table.
QueryActive_NoWhere(s) == SelectRows(s, validStates, 1)

QueryActive(s) == SelectRows(s, {OPEN, IN_PROGRESS}, 1)

\* The closed list's query with the cancelled tasks left out of its WHERE.
QueryClosed_OnlyClosed(s) == SelectRows(s, {CLOSED}, 1)

QueryClosed(s) == SelectRows(s, {CLOSED, CANCELLED}, 1)

\* COUNT(CASE WHEN task_state = st THEN 1 END)
CountState(s, st) == Cardinality({i \in 1..Len(s) : s[i].State = st})

RECURSIVE SumDays(_, _)
SumDays(s, ids) ==
    IF ids = {} THEN 0
    ELSE LET i == CHOOSE j \in ids : TRUE
         IN  (s[i].Closed[1] - s[i].Created) + SumDays(s, ids \ {i})

\* AVG(CASE WHEN task_state = 'closed' THEN JULIANDAY(closed_at) -
\* JULIANDAY(created_at) END): the mean over the closed rows whose closed_at
\* is not NULL, and NULL when there is no such row (main.go:123-126).
AvgCompletionDays(s) ==
    LET ids == {i \in 1..Len(s) : s[i].State = CLOSED /\ s[i].Closed # NULL}
    IN  IF ids = {} THEN NULL
        ELSE <<Rat(SumDays(s, ids), Cardinality(ids))>>

\* main.go:117-128, the row the statistics query returns.
QueryStats(s) ==
    [totalOpen |-> CountState(s, OPEN),
     totalInProgress |-> CountState(s, IN_PROGRESS),
     totalClosed |-> CountState(s, CLOSED),
     totalCancelled |-> CountState(s, CANCELLED),
     avg |-> AvgCompletionDays(s)]

\* ------------------------------------------------------------------- state

VARIABLES
    store,       \* the task table: store[id] is the row with that id
    now,         \* CURRENT_TIMESTAMP of the store's last statement, in days
    pc,          \* "new", "run", "loop" (rendered, waiting in PollEvent), "exited"
    err,         \* what the process ended with: "" is a nil error
    screen,      \* "none", "inited" (after screen.Init), "finied" (after screen.Fini)
    activeList,  \* App.activeList
    closedList,  \* App.closedList
    stats,       \* App.stats
    activeView,  \* App.activeView
    cursor,      \* App.cursor
    mode,        \* App.mode
    editBuffer,  \* App.editBuffer
    editCol,     \* App.editCol
    shown,       \* what the last drawScreen drew: <<>> or <<the view it drew>>
    nExec,       \* number of db.Exec calls issued so far
    nLoad,       \* number of loadTasks calls issued so far
    entered      \* history: <<>>, or <<what the App held when the edit key
                 \* entered the edit mode it is in now>>

vars == <<store, now, pc, err, screen, activeList, closedList, stats, activeView,
          cursor, mode, editBuffer, editCol, shown, nExec, nLoad, entered>>

view == <<activeList, closedList, stats, activeView, cursor, mode, editBuffer, editCol>>

\* -------------------------------------------------------------- loadTasks

\* Where a call of loadTasks may fail for a reason outside the program: one
\* of the two list queries ("query": main.go:98-100 and 111-113 return alike),
\* the statistics row, or the Scan of the k-th row of a list.
LoadFaults ==
    {[at |-> a, k |-> 0] : a \in {"none", "query", "stats"}}
        \cup {[at |-> a, k |-> k] : a \in {"scan_active", "scan_closed"},
                                   k \in 1..MaxTasks}

NoFault == [at |-> "none", k |-> 0]

\* main.go:130-139.  Scan assigns its destinations in order: the four counts
\* are stored before the fifth column is converted, and a NULL average
\* cannot be converted to float64.  A failed QueryRow assigns nothing.
ScanStats(old, s, fault) ==
    LET row == QueryStats(s)
        counted == [old EXCEPT !.totalOpen = row.totalOpen,
                               !.totalInProgress = row.totalInProgress,
                               !.totalClosed = row.totalClosed,
                               !.totalCancelled = row.totalCancelled]
    IN  IF fault.at = "stats" THEN [stats |-> old, err |-> "store"]
        ELSE IF row.avg = NULL THEN [stats |-> counted, err |-> "scan_null"]
        ELSE [stats |-> [counted EXCEPT !.avgCompletionTime = row.avg[1]],
              err |-> ""]

\* main.go:145-159 and 162-176: append the rows one by one; a failing Scan
\* of row k returns with the k-1 rows before it appended.
ScanRows(rows, fault, which) ==
    IF fault.at = which /\ fault.k <= Len(rows)
    THEN [list |-> SubSeq(rows, 1, fault.k - 1), err |-> "store"]
    ELSE [list |-> rows, err |-> ""]

\* loadTasks with the error of a row's Scan dropped: the loop over the rows
\* ends at the failing row and the function goes on and returns nil.
loadTasks_ScanErrorDropped(al, cl, st, s, fault) ==
    IF fault.at = "query"
    THEN [activeList |-> al, closedList |-> cl, stats |-> st, err |-> "store"]
    ELSE LET sc == ScanStats(st, s, fault)
         IN  IF sc.err # ""
             THEN [activeList |-> al, closedList |-> cl, stats |-> sc.stats,
                   err |-> sc.err]
             ELSE [activeList |-> ScanRows(QueryActive(s), fault, "scan_active").list,
                   closedList |-> ScanRows(QueryClosed(s), fault, "scan_closed").list,
                   stats |-> sc.stats, err |-> ""]

\* main.go:89-179.  The result of loadTasks on the in-memory lists and
\* statistics (al, cl, st) over the table s.
loadTasks(al, cl, st, s, fault) ==
    IF fault.at = "query"
    THEN [activeList |-> al, closedList |-> cl, stats |-> st, err |-> "store"]
    ELSE LET sc == ScanStats(st, s, fault)
         IN  IF sc.err # ""
             THEN [activeList |-> al, closedList |-> cl, stats |-> sc.stats,
                   err |-> sc.err]
             ELSE LET a == ScanRows(QueryActive(s), fault, "scan_active")
                  IN  IF a.err # ""
                      THEN [activeList |-> a.list, closedList |-> <<>>,
                            stats |-> sc.stats, err |-> a.err]
                      ELSE LET c == ScanRows(QueryClosed(s), fault, "scan_closed")
                           IN  [activeList |-> a.list, closedList |-> c.list,
                                stats |-> sc.stats, err |-> c.err]

\* main.go:187-230: what drawScreen reads of the lists and the statistics.
Drawn == <<[activeList |-> activeList, closedList |-> closedList, stats |-> stats]>>

\* ------------------------------------------------------------------ start

\* A Stats value with all fields zero (main.go:44-50).
ZeroStats ==
    [totalOpen |-> 0, totalInProgress |-> 0, totalClosed |-> 0,
     totalCancelled |-> 0, avgCompletionTime |-> ZeroFloat]

\* The process before main calls NewApp; the App fields hold the values
\* NewApp gives them (main.go:81-86: zero values, cursor 0, mode "normal").
Init ==
    /\ store \in InitStores
    /\ now = InitNow
    /\ pc = "new"
    /\ err = ""
    /\ screen = "none"
    /\ activeList = <<>>
    /\ closedList = <<>>
    /\ stats = ZeroStats
    /\ activeView = FALSE
    /\ cursor = 0
    /\ mode = "normal"
    /\ editBuffer = <<>>
    /\ editCol = 0
    /\ shown = <<>>
    /\ nExec = 0
    /\ nLoad = 0
    /\ entered = <<>>

\* main.go:65-87 and 448-452.  tcell.NewScreen or screen.Init fails
\* ("screen"), initDB fails after the screen is initialised ("db"), or both
\* succeed.  On an error main calls log.Fatal: the process exits at once.
NewApp ==
    /\ pc = "new"
    /\ \E outcome \in {"screen", "db", "ok"} :
         /\ screen' = IF outcome = "screen" THEN "none" ELSE "inited"
         /\ pc' = IF outcome = "ok" THEN "run" ELSE "exited"
         /\ err' = IF outcome = "ok" THEN "" ELSE outcome
    /\ UNCHANGED <<store, now, view, shown, nExec, nLoad, entered>>

\* main.go:348-350: the top of the loop draws the lists and statistics the
\* handler left and then waits in PollEvent.
Redraw ==
    /\ pc' = "loop"
    /\ err' = ""
    /\ screen' = screen
    /\ shown' = <<[activeList |-> activeList', closedList |-> closedList',
                   stats |-> stats']>>

\* Run returns e (nil is ""), or a runtime panic unwinds it ("panic"): the
\* deferred screen.Fini of main.go:341 runs and the process ends
\* (main.go:454-456).
Exit(e) ==
    /\ pc' = "exited"
    /\ err' = e
    /\ screen' = "finied"
    /\ shown' = shown

\* main.go:340-350: the first loadTasks; on an error Run returns it,
\* otherwise the loop is entered.
RunStart ==
    /\ pc = "run"
    /\ \E fault \in LoadFaults :
         LET r == loadTasks(activeList, closedList, stats, store, fault)
         IN  /\ activeList' = r.activeList
             /\ closedList' = r.closedList
             /\ stats' = r.stats
             /\ IF r.err = "" THEN Redraw ELSE Exit(r.err)
    /\ nLoad' = nLoad + 1
    /\ UNCHANGED <<store, now, activeView, cursor, mode, editBuffer, editCol, nExec,
                   entered>>

\* ------------------------------------------------------------ normal mode

Normal == pc = "loop" /\ mode = "normal"

\* The quit keys handled before the mode is looked at.
NormalQuit_AnyMode ==
    /\ pc = "loop"
    /\ Exit("")
    /\ UNCHANGED <<store, now, view, nExec, nLoad, entered>>

\* main.go:356-357 and 363-364: Escape, Ctrl-C or the rune 'q'.
NormalQuit ==
    /\ Normal
    /\ Exit("")
    /\ UNCHANGED <<store, now, view, nExec, nLoad, entered>>

\* main.go:358-360
NormalTab ==
    /\ Normal
    /\ activeView' = ~activeView
    /\ cursor' = 0
    /\ UNCHANGED <<store, now, activeList, closedList, stats, mode, editBuffer,
                   editCol, nExec, nLoad, entered>>
    /\ Redraw

\* main.go:365-369
NormalH ==
    /\ Normal
    /\ activeView' = FALSE
    /\ cursor' = IF activeView THEN 0 ELSE cursor
    /\ UNCHANGED <<store, now, activeList, closedList, stats, mode, editBuffer,
                   editCol, nExec, nLoad, entered>>
    /\ Redraw

\* main.go:370-374
NormalL ==
    /\ Normal
    /\ activeView' = TRUE
    /\ cursor' = IF ~activeView THEN 0 ELSE cursor
    /\ UNCHANGED <<store, now, activeList, closedList, stats, mode, editBuffer,
                   editCol, nExec, nLoad, entered>>
    /\ Redraw

\* main.go:375-384
NormalJ ==
    /\ Normal
    /\ cursor' = IF activeView
                 THEN IF cursor < Len(activeList) - 1 THEN cursor + 1 ELSE cursor
                 ELSE IF cursor < Len(closedList) - 1 THEN cursor + 1 ELSE cursor
    /\ UNCHANGED <<store, now, activeList, closedList, stats, activeView, mode,
                   editBuffer, editCol, nExec, nLoad, entered>>
    /\ Redraw

\* main.go:385-388
NormalK ==
    /\ Normal
    /\ cursor' = IF cursor > 0 THEN cursor - 1 ELSE cursor
    /\ UNCHANGED <<store, now, activeList, closedList, stats, activeView, mode,
                   editBuffer, editCol, nExec, nLoad, entered>>
    /\ Redraw

\* list[cursor] of Go: an index outside 0..len-1 is a runtime panic.
InRange(list) == 0 <= cursor /\ cursor < Len(list)

\* list[cursor], Go's index from 0.
At(list) == list[cursor + 1]

\* What the history variable records when the edit mode is entered.
Snapshot ==
    <<[store |-> store, activeList |-> activeList, closedList |-> closedList,
       stats |-> stats, cursor |-> cursor, activeView |-> activeView]>>

\* The edit key entering edit mode whichever pane is focused.
NormalI_AnyPane ==
    /\ Normal
    /\ UNCHANGED <<store, now, activeList, closedList, stats, activeView, cursor,
                   nExec, nLoad>>
    /\ IF Len(activeList) > 0
       THEN IF InRange(activeList)
            THEN /\ mode' = "edit"
                 /\ editCol' = 1
                 /\ editBuffer' = At(activeList).Content
                 /\ entered' = Snapshot
                 /\ Redraw
            ELSE /\ UNCHANGED <<mode, editCol, editBuffer, entered>>
                 /\ Exit("panic")
       ELSE /\ UNCHANGED <<mode, editCol, editBuffer, entered>>
            /\ Redraw

\* main.go:389-395
NormalI ==
    /\ Normal
    /\ UNCHANGED <<store, now, activeList, closedList, stats, activeView, cursor,
                   nExec, nLoad>>
    /\ IF activeView /\ Len(activeList) > 0
       THEN IF InRange(activeList)
            THEN /\ mode' = "edit"
                 /\ editCol' = 1
                 /\ editBuffer' = At(activeList).Content
                 /\ entered' = Snapshot
                 /\ Redraw
            ELSE /\ UNCHANGED <<mode, editCol, editBuffer, entered>>
                 /\ Exit("panic")
       ELSE /\ UNCHANGED <<mode, editCol, editBuffer, entered>>
            /\ Redraw

\* -------------------------------------------------------------- edit mode

Edit == pc = "loop" /\ mode # "normal"

\* The cancel key leaving edit mode with the buffer as it is.
EditEscape_KeepBuffer ==
    /\ Edit
    /\ mode' = "normal"
    /\ entered' = <<>>
    /\ UNCHANGED <<store, now, activeList, closedList, stats, activeView, cursor,
                   editBuffer, editCol, nExec, nLoad>>
    /\ Redraw

\* main.go:400-402
EditEscape ==
    /\ Edit
    /\ mode' = "normal"
    /\ editBuffer' = <<>>
    /\ entered' = <<>>
    /\ UNCHANGED <<store, now, activeList, closedList, stats, activeView, cursor,
                   editCol, nExec, nLoad>>
    /\ Redraw

\* main.go:399-432: Ctrl-C in edit mode matches no case of the switch.
EditCtrlC ==
    /\ Edit
    /\ UNCHANGED <<store, now, view, nExec, nLoad, entered>>
    /\ Redraw

\* The column toggle with the buffer kept instead of loaded from the task.
EditTab_KeepBuffer ==
    /\ Edit
    /\ UNCHANGED <<store, now, activeList, closedList, stats, activeView, cursor,
                   mode, nExec, nLoad, entered>>
    /\ editCol' = IF editCol = 1 THEN 3 ELSE 1
    /\ editBuffer' = editBuffer
    /\ Redraw

\* main.go:409-417
EditTab ==
    /\ Edit
    /\ UNCHANGED <<store, now, activeList, closedList, stats, activeView, cursor,
                   mode, nExec, nLoad, entered>>
    /\ IF InRange(activeList)
       THEN /\ editCol' = IF editCol = 1 THEN 3 ELSE 1
            /\ editBuffer' = IF editCol = 1 THEN At(activeList).State
                             ELSE At(activeList).Content
            /\ Redraw
       ELSE /\ UNCHANGED <<editCol, editBuffer>>
            /\ Exit("panic")

\* main.go:418-421.  Keys that change the buffer are followed only while
\* the run may still issue a statement.
EditBackspace ==
    /\ Edit
    /\ nExec < MaxWrites
    /\ editBuffer' = IF Len(editBuffer) > 0
                     THEN SubSeq(editBuffer, 1, Len(editBuffer) - 1)
                     ELSE editBuffer
    /\ UNCHANGED <<store, now, activeList, closedList, stats, activeView, cursor,
                   mode, editCol, nExec, nLoad, entered>>
    /\ Redraw

\* main.go:422-431.  The rune r is typed; in the content column the
\* keyboard is held to ContentRunes and to buffers of at most MaxLen runes.
\* Keys that change the buffer are followed only while the run may still
\* issue a statement.
EditRune ==
    /\ Edit
    /\ nExec < MaxWrites
    /\ \E r \in StateRunes \cup ContentRunes :
         /\ editCol # 3 => (r \in ContentRunes /\ Len(editBuffer) < MaxLen)
         /\ editCol = 3 => r \in StateRunes
         /\ editBuffer' = IF editCol = 3
                          THEN IF isValidStateInput(Append(editBuffer, r))
                               THEN Append(editBuffer, r)
                               ELSE editBuffer
                          ELSE Append(editBuffer, r)
    /\ UNCHANGED <<store, now, activeList, closedList, stats, activeView, cursor,
                   mode, editCol, nExec, nLoad, entered>>
    /\ Redraw

\* The content UPDATE without its WHERE clause: every row is written.
UpdateContent_NoWhere(s, id, buf) == [i \in DOMAIN s |-> [s[i] EXCEPT !.Content = buf]]

\* main.go:307-308: UPDATE task SET task_content = ? WHERE id = ?
UpdateContent(s, id, buf) == [s EXCEPT ![id].Content = buf]

\* The state UPDATE with closed_at stamped whatever the new state is.
UpdateState_StampAlways(s, id, buf, t) ==
    [s EXCEPT ![id].State = buf, ![id].Closed = <<t>>]

\* main.go:321-328: UPDATE task SET task_state = ? [, closed_at =
\* CURRENT_TIMESTAMP] WHERE id = ?, executed at time t.
UpdateState(s, id, buf, t) ==
    [s EXCEPT ![id].State = buf,
              ![id].Closed = IF buf = CLOSED THEN <<t>> ELSE @]

\* main.go:293-300: the task the commit is about, <<>> when the focused
\* list is empty.  Only called with the cursor in range.
CurrentTask ==
    IF activeView /\ Len(activeList) > 0 THEN <<At(activeList)>>
    ELSE IF ~activeView /\ Len(closedList) > 0 THEN <<At(closedList)>>
    ELSE <<>>

\* The list main.go:293-297 indexes.
FocusedList == IF activeView THEN activeList ELSE closedList

\* The statement built without the check of main.go:317-319.
Write_Unvalidated(task, wfail, t) ==
    IF wfail THEN [store |-> store, err |-> "store", execs |-> 1]
    ELSE [store |-> IF editCol = 1
                    THEN [store EXCEPT ![task.ID].Content = editBuffer]
                    ELSE [store EXCEPT ![task.ID].State = editBuffer],
          err |-> "", execs |-> 1]

\* main.go:302-334 up to the Exec: the table after the statement, or the
\* validation error.  wfail: db.Exec returns an error; t: the store's
\* clock when the statement runs.
Write(task, wfail, t) ==
    IF editCol = 3 /\ editBuffer \notin validStates
    THEN [store |-> store, err |-> "invalid state", execs |-> 0]
    ELSE IF wfail THEN [store |-> store, err |-> "store", execs |-> 1]
    ELSE [store |-> CASE editCol = 1 -> UpdateContent(store, task.ID, editBuffer)
                      [] editCol = 3 -> UpdateState(store, task.ID, editBuffer, t)
                      [] OTHER -> store,
          err |-> "", execs |-> 1]

\* saveCurrentEdit returning nil after the Exec, with no call of loadTasks.
saveCurrentEdit_NoReload(wfail, t, fault) ==
    LET keep == [store |-> store, activeList |-> activeList,
                 closedList |-> closedList, stats |-> stats, ret |-> "",
                 execs |-> 0, loads |-> 0]
    IN  IF CurrentTask = <<>> THEN keep
        ELSE LET w == Write(CurrentTask[1], wfail, t)
             IN  [keep EXCEPT !.store = w.store, !.ret = w.err,
                              !.execs = w.execs]

\* main.go:290-338.  ret: the function returned ("" is nil, "panic" an
\* index out of range at main.go:295 or 297); loads: calls of loadTasks.
saveCurrentEdit(wfail, t, fault) ==
    LET keep == [store |-> store, activeList |-> activeList,
                 closedList |-> closedList, stats |-> stats, ret |-> "",
                 execs |-> 0, loads |-> 0]
    IN  IF Len(FocusedList) > 0 /\ ~InRange(FocusedList)
        THEN [keep EXCEPT !.ret = "panic"]
        ELSE IF CurrentTask = <<>> THEN keep
        ELSE LET w == Write(CurrentTask[1], wfail, t)
             IN  IF w.err # ""
                 THEN [keep EXCEPT !.ret = w.err, !.execs = w.execs]
                 ELSE LET r == loadTasks(activeList, closedList, stats, w.store,
                                         fault)
                      IN  [store |-> w.store, activeList |-> r.activeList,
                           closedList |-> r.closedList, stats |-> r.stats,
                           ret |-> r.err, execs |-> 1, loads |-> 1]

\* The commit key with the error of saveCurrentEdit dropped: the mode is
\* set to normal and the loop goes on.
EditEnterStep_ErrorDropped(wfail, t, fault) ==
    LET r == saveCurrentEdit(wfail, t, fault)
    IN  /\ UNCHANGED <<activeView, cursor, editBuffer, editCol>>
        /\ nExec' = nExec + r.execs
        /\ nLoad' = nLoad + r.loads
        /\ now' = IF r.execs = 1 THEN t ELSE now
        /\ store' = r.store
        /\ activeList' = r.activeList
        /\ closedList' = r.closedList
        /\ stats' = r.stats
        /\ mode' = "normal"
        /\ entered' = <<>>
        /\ Redraw

\* main.go:403-408 with the call of saveCurrentEdit, for one outcome of
\* the store: wfail (db.Exec fails), t (the store's clock at the Exec) and
\* fault (where the reload fails, if it does).
EditEnterStep(wfail, t, fault) ==
    LET r == saveCurrentEdit(wfail, t, fault)
    IN  /\ UNCHANGED <<activeView, cursor, editBuffer, editCol>>
        /\ nExec' = nExec + r.execs
        /\ nLoad' = nLoad + r.loads
        /\ now' = IF r.execs = 1 THEN t ELSE now
        /\ store' = r.store
        /\ activeList' = r.activeList
        /\ closedList' = r.closedList
        /\ stats' = r.stats
        /\ mode' = IF r.ret = "panic" THEN mode ELSE "normal"
        /\ entered' = IF r.ret = "panic" THEN entered ELSE <<>>
        /\ IF r.ret = "" THEN Redraw ELSE Exit(r.ret)

\* What the store may do at a commit: the Exec fails, or it runs at the
\* store's next clock value and the reload fails somewhere or nowhere.
Outcomes ==
    {<<TRUE, now + 1, NoFault>>} \cup ({FALSE} \X {now + 1} \X LoadFaults)

\* The commit key in edit mode.  At most MaxWrites statements are issued
\* in one run.
EditEnter ==
    /\ Edit
    /\ nExec < MaxWrites
    /\ \E o \in Outcomes : EditEnterStep(o[1], o[2], o[3])

\* ----------------------------------------------------------- specification

Next ==
    \/ NewApp
    \/ RunStart
    \/ NormalQuit
    \/ NormalTab
    \/ NormalH
    \/ NormalL
    \/ NormalJ
    \/ NormalK
    \/ NormalI
    \/ EditEscape
    \/ EditCtrlC
    \/ EditTab
    \/ EditBackspace
    \/ EditRune
    \/ EditEnter

Spec == Init /\ [][Next]_vars

\* ------------------------------------------------------------------ claims

Max(a, b) == IF a >= b THEN a ELSE b

\* The commit key is handled with the given outcome of the store.
Commit(wfail, t, fault) ==
    Edit /\ nExec < MaxWrites /\ EditEnterStep(wfail, t, fault)


\* The commit is one of a state edit whose buffer is none of the four words.
InvalidStateEdit == editCol = 3 /\ editBuffer \notin validStates

\* C1: whenever the run loop has rendered and waits for input, the cursor
\* satisfies 0 <= cursor < max(1, len(focusedList)).
C1_CursorInBounds ==
    pc = "loop" => (0 <= cursor /\ cursor < Max(1, Len(FocusedList)))

\* C2: a commit of a state edit whose buffer is not one of the four words
\* does not end the run loop: the mode becomes Normal and the loop renders
\* and waits for the next event.
C2_InvalidCommitRecoverable ==
    [][\A o \in Outcomes :
         (InvalidStateEdit /\ Commit(o[1], o[2], o[3]))
             => (pc' = "loop" /\ mode' = "normal")]_vars

\* C3: a commit of a state edit whose buffer is not one of the four words
\* issues no write: the table is the same after it, no Exec was issued,
\* and the mode after it is Normal.
C3_InvalidCommitWritesNothing ==
    [][\A o \in Outcomes :
         (InvalidStateEdit /\ Commit(o[1], o[2], o[3]))
             => (store' = store /\ nExec' = nExec /\ mode' = "normal")]_vars

\* C3 witness: the run ended on the validation error, in Normal mode,
\* without an Exec.
C3_Witness ==
    pc = "exited" /\ err = "invalid state" /\ mode = "normal" /\ nExec = 0

\* Ids of the rows of the table in one of the given states.
IdsIn(sts) == {i \in DOMAIN store : store[i].State \in sts}

\* The list holds exactly the rows of the table with the given ids, each as
\* the table holds it, by ascending id.
ListIs(list, ids) ==
    /\ {list[i].ID : i \in DOMAIN list} = ids
    /\ \A i \in DOMAIN list : list[i] = store[list[i].ID]
    /\ \A i, j \in DOMAIN list : i < j => list[i].ID < list[j].ID

\* The statistics are the per-state counts of the table and the mean of
\* closed - created over its closed rows.
StatsAreCurrent ==
    LET ids == {i \in IdsIn({CLOSED}) : store[i].Closed # NULL}
    IN  /\ stats.totalOpen = Cardinality(IdsIn({OPEN}))
        /\ stats.totalInProgress = Cardinality(IdsIn({IN_PROGRESS}))
        /\ stats.totalClosed = Cardinality(IdsIn({CLOSED}))
        /\ stats.totalCancelled = Cardinality(IdsIn({CANCELLED}))
        /\ ids # {} =>
             stats.avgCompletionTime[1] * Cardinality(ids)
                 = SumDays(store, ids) * stats.avgCompletionTime[2]

\* C4: whenever the run loop renders, the lists and the statistics are the
\* result of querying the table as it is now (no store operation has failed
\* in such a state: every failure ends the loop).
C4_ViewIsStore ==
    pc = "loop" =>
        /\ ListIs(activeList, IdsIn({OPEN, IN_PROGRESS}))
        /\ ListIs(closedList, IdsIn({CLOSED, CANCELLED}))
        /\ StatsAreCurrent
        /\ shown = Drawn

\* C4 witness: the loop renders after a commit that changed the table.
C4_Witness ==
    /\ pc = "loop"
    /\ nExec = 1
    /\ nLoad = 2
    /\ \E i \in DOMAIN store : store[i] # RowOf(i, store[i].State)

\* C5: a commit of a content edit whose write succeeds sets the content of
\* the task at the cursor to the buffer and changes no other field of it and
\* no other task; after the reload the task is in the active list, where it
\* was, with the new content.
C5_ContentCommitFrame ==
    [][\A o \in Outcomes :
         (editCol = 1 /\ nLoad' = nLoad + 1 /\ Commit(o[1], o[2], o[3]))
             => LET T == At(activeList).ID
                IN  /\ store' = [store EXCEPT ![T].Content = editBuffer]
                    /\ pc' = "loop" =>
                         /\ \E i \in DOMAIN activeList' :
                              /\ activeList'[i].ID = T
                              /\ activeList'[i].Content = editBuffer
                         /\ \A i \in DOMAIN closedList' : closedList'[i].ID # T]_vars

\* C5 witness: after a content commit on task 2 the table holds the typed
\* content for it, the other row is as it was, and the loop renders.
C5_Witness ==
    /\ pc = "loop"
    /\ nExec = 1
    /\ store[2].Content = <<"q">>
    /\ store[1].Content = InitContent(1)
    /\ \E i \in DOMAIN activeList : activeList[i] = store[2]

C7_ClosedStamp ==
    [][\A o \in Outcomes :
         (nLoad' = nLoad + 1 /\ Commit(o[1], o[2], o[3]))
             => LET T == At(activeList).ID
                IN  IF editCol = 3 /\ editBuffer = CLOSED
                    THEN /\ store'[T].State = CLOSED
                         /\ store'[T].Closed = <<o[2]>>
                         /\ now' = o[2]
                         /\ o[2] >= store'[T].Created
                    ELSE store'[T].Closed = store[T].Closed]_vars

\* C7 witness: a task closed by a commit, stamped with the time of the
\* write, which is later than its created time.
C7_Witness ==
    /\ nExec = 1
    /\ \E i \in DOMAIN store :
         /\ store[i].State = CLOSED
         /\ store[i].Closed = <<now>>
         /\ now > store[i].Created

\* C8: a load over a table with no closed task completes, and the average
\* completion time it yields is 0.0 with the four counts those of the table.
C8_LoadWithoutClosed ==
    (nLoad > 0 /\ IdsIn({CLOSED}) = {} /\ err # "store")
        => /\ err # "scan_null"
           /\ stats.avgCompletionTime = ZeroFloat
           /\ stats.totalOpen = Cardinality(IdsIn({OPEN}))
           /\ stats.totalInProgress = Cardinality(IdsIn({IN_PROGRESS}))
           /\ stats.totalClosed = 0
           /\ stats.totalCancelled = Cardinality(IdsIn({CANCELLED}))

\* C9: when the process has ended after the terminal was initialised, the
\* terminal has been finalised.
C9_TerminalReleased ==
    pc = "exited" => screen # "inited"

\* The reload of table s fails at the given place.
LoadFails(s, fault) == loadTasks(<<>>, <<>>, ZeroStats, s, fault).err # ""

\* C10: when the write of a commit fails, or the reload after its write
\* fails, the loop ends with the error, nothing is drawn again, the mode is
\* Normal, one Exec and at most one load were issued; when the write fails,
\* no load is issued and the table and the lists are as they were.  No
\* input is handled once the loop has ended.
C10_StoreFailureIsFatal ==
    [][/\ pc # "exited"
       /\ \A o \in Outcomes :
            (~InvalidStateEdit /\ Commit(o[1], o[2], o[3])
               /\ (o[1] \/ LoadFails(store', o[3])))
                => /\ pc' = "exited"
                   /\ err' \in {"store", "scan_null"}
                   /\ shown' = shown
                   /\ mode' = "normal"
                   /\ nExec' = nExec + 1
                   /\ nLoad' = IF o[1] THEN nLoad ELSE nLoad + 1
                   /\ o[1] => /\ store' = store
                              /\ activeList' = activeList
                              /\ closedList' = closedList
                              /\ stats' = stats]_vars

\* C10 witness: the run ended on a failed write: one Exec, no reload, the
\* lists still those of the first load.
C10_Witness ==
    /\ pc = "exited"
    /\ err = "store"
    /\ mode = "normal"
    /\ nExec = 1
    /\ nLoad = 1
    /\ ListIs(activeList, IdsIn({OPEN, IN_PROGRESS}))
    /\ activeList # <<>>

\* C11: every task of the table is in one of the four states open,
\* in_progress, closed and cancelled, in every state the program reaches:
\* no commit has written any other string into the state column.
C11_StatesInEnum ==
    \A i \in DOMAIN store : store[i].State \in validStates

\* C11 witness: a state commit has written "cancelled" on a task that was
\* active (the cancelled rows of the start carry a closed time, this one
\* does not).
C11_Witness ==
    /\ nExec = 1
    /\ editCol = 3
    /\ editBuffer = CANCELLED
    /\ \E i \in DOMAIN store :
         store[i].State = CANCELLED /\ store[i].Closed = NULL

\* Number of rows of the list in the given state.
CountIn(list, st) == Cardinality({i \in DOMAIN list : list[i].State = st})

\* A view model (two lists and statistics) that is the result of one whole
\* load: every row of the table is in one of the lists, the active list
\* holds open and in_progress rows, the closed list closed and cancelled
\* ones, and the statistics are the counts and the mean of those very rows.
WholeLoad(v) ==
    LET al == v.activeList
        cl == v.closedList
        done == {i \in DOMAIN cl : cl[i].State = CLOSED /\ cl[i].Closed # NULL}
        days[n \in 0..Len(cl)] ==
            IF n = 0 THEN 0
            ELSE days[n - 1]
                   + (IF n \in done THEN cl[n].Closed[1] - cl[n].Created ELSE 0)
    IN  /\ {al[i].ID : i \in DOMAIN al} \cup {cl[i].ID : i \in DOMAIN cl}
             = DOMAIN store
        /\ Len(al) + Len(cl) = Len(store)
        /\ \A i \in DOMAIN al : al[i].State \in {OPEN, IN_PROGRESS}
        /\ \A i \in DOMAIN cl : cl[i].State \in {CLOSED, CANCELLED}
        /\ v.stats.totalOpen = CountIn(al, OPEN)
        /\ v.stats.totalInProgress = CountIn(al, IN_PROGRESS)
        /\ v.stats.totalClosed = CountIn(cl, CLOSED)
        /\ v.stats.totalCancelled = CountIn(cl, CANCELLED)
        /\ done # {} =>
             v.stats.avgCompletionTime[1] * Cardinality(done)
                 = days[Len(cl)] * v.stats.avgCompletionTime[2]

IsPrefixOf(s, w) ==
    /\ Len(s) <= Len(w)
    /\ \A i \in 1..Len(s) : s[i] = w[i]

\* C13: whenever the program waits for a key in edit mode on the state
\* column, the buffer is a prefix (the empty one and the whole word
\* included) of at least one of the four words.
C13_StateBufferIsPrefix ==
    (pc = "loop" /\ mode = "edit" /\ editCol = 3)
        => \E w \in validStates : IsPrefixOf(editBuffer, w)

\* C13 witness: the state column is edited and the buffer is "cl", typed
\* after the stored word was deleted.
C13_Witness ==
    /\ pc = "loop"
    /\ mode = "edit"
    /\ editCol = 3
    /\ editBuffer = <<"c", "l">>

\* C14: the edit key in Normal mode enters edit mode when the active pane
\* is focused and the active list is not empty, with the content column
\* selected and the buffer the content of the task at the cursor in the
\* active list; otherwise it leaves mode, cursor, pane, buffer and table as
\* they are.
C14_EditKey ==
    [][NormalI =>
         IF activeView /\ Len(activeList) > 0
         THEN /\ mode' = "edit"
              /\ editCol' = 1
              /\ InRange(activeList)
              /\ editBuffer' = At(activeList).Content
         ELSE UNCHANGED <<mode, cursor, activeView, editBuffer, store>>]_vars

\* C15: the cancel key in edit mode sets the mode to Normal and the buffer
\* to empty, issues no Exec and no load, and leaves table, lists,
\* statistics, cursor and pane as they were when edit mode was entered.
C15_CancelRestores ==
    [][EditEscape =>
         /\ mode' = "normal"
         /\ editBuffer' = <<>>
         /\ nExec' = nExec
         /\ nLoad' = nLoad
         /\ pc' = "loop"
         /\ entered # <<>>
         /\ <<[store |-> store', activeList |-> activeList',
               closedList |-> closedList', stats |-> stats',
               cursor |-> cursor', activeView |-> activeView']>> = entered]_vars

\* C15 witness: edit mode was left by the cancel key after the column
\* toggle had been pressed: Normal mode, empty buffer, no Exec issued.
C15_Witness ==
    /\ pc = "loop"
    /\ mode = "normal"
    /\ editCol = 3
    /\ editBuffer = <<>>
    /\ nExec = 0

\* C16: the column toggle selects the other of content and state and sets
\* the buffer to what the table holds in that field for the task at the
\* cursor in the active list; a commit whose write succeeds changes the
\* field of the selected column only.
C16_ColumnToggle ==
    [][/\ EditTab =>
            LET T == At(activeList).ID
            IN  /\ editCol \in {1, 3}
                /\ editCol' = 4 - editCol
                /\ editBuffer' = IF editCol' = 1 THEN store[T].Content
                                 ELSE store[T].State
                /\ pc' = "loop"
       /\ \A o \in Outcomes :
            (nLoad' = nLoad + 1 /\ Commit(o[1], o[2], o[3]))
                => LET T == At(activeList).ID
                   IN  /\ editCol = 1 => /\ store'[T].State = store[T].State
                                         /\ store'[T].Closed = store[T].Closed
                       /\ editCol = 3 => store'[T].Content = store[T].Content]_vars

\* C16 witness: the toggle has selected the state column and the buffer
\* is the stored state of the task at the cursor, before any Exec.
C16_Witness ==
    /\ pc = "loop"
    /\ mode = "edit"
    /\ editCol = 3
    /\ InRange(activeList)
    /\ editBuffer = store[At(activeList).ID].State
    /\ nExec = 0

\* C17: whenever the program waits for a key in edit mode, the active pane
\* is focused, the active list is not empty, and cursor, active list and
\* closed list are what they were when edit mode was entered; the task a
\* commit resolves is the task at the cursor in the active list then.
C17_EditTarget ==
    (pc = "loop" /\ mode = "edit") =>
        /\ activeView
        /\ Len(activeList) > 0
        /\ InRange(activeList)
        /\ entered # <<>>
        /\ cursor = entered[1].cursor
        /\ activeList = entered[1].activeList
        /\ closedList = entered[1].closedList
        /\ CurrentTask = <<entered[1].activeList[entered[1].cursor + 1]>>
        /\ \A i \in DOMAIN closedList : closedList[i].ID # CurrentTask[1].ID

\* C17 witness: edit mode entered on the second task of the active list
\* while the closed list is not empty, the column toggled since.
C17_Witness ==
    /\ pc = "loop"
    /\ mode = "edit"
    /\ cursor = 1
    /\ editCol = 3
    /\ closedList # <<>>

\* C18: every list[cursor] the key handlers evaluate is in bounds: the
\* edit key's in Normal mode with the active pane focused and a non-empty
\* active list, the column toggle's and the commit's in edit mode; no run
\* ends in an index-out-of-range panic.
C18_IndexInBounds ==
    /\ err # "panic"
    /\ pc = "loop" =>
         /\ (mode = "normal" /\ activeView /\ Len(activeList) > 0)
                => InRange(activeList)
         /\ mode = "edit" => InRange(activeList)
         /\ (mode = "edit" /\ Len(FocusedList) > 0) => InRange(FocusedList)

\* Ids of the rows of a list.
ListIds(list) == {list[i].ID : i \in DOMAIN list}

\* C19: no step changes any field of a task that is closed or cancelled;
\* a step that changes the table changes one task, which is in the active
\* list; while the loop goes on, no id leaves the closed list and no id
\* enters the active list.
C19_ClosedIsFinal ==
    [][/\ \A i \in DOMAIN store :
            store[i].State \in {CLOSED, CANCELLED} => store'[i] = store[i]
       /\ store' # store =>
            \E k \in DOMAIN activeList :
                \A i \in DOMAIN store :
                    i # activeList[k].ID => store'[i] = store[i]
       /\ (pc = "loop" /\ pc' = "loop") =>
            /\ ListIds(closedList) \subseteq ListIds(closedList')
            /\ ListIds(activeList') \subseteq ListIds(activeList)]_vars

\* C19 witness: after a commit that closed a task the closed list holds
\* it next to a task that was closed or cancelled from the start and is
\* as it was then.
C19_Witness ==
    /\ pc = "loop"
    /\ nExec = 1
    /\ \E i, j \in DOMAIN closedList :
         /\ i # j
         /\ closedList[i].Closed = <<now>>
         /\ now > InitNow
         /\ closedList[j] = RowOf(closedList[j].ID, closedList[j].State)
         /\ store[closedList[j].ID] = closedList[j]

\* C20: in edit mode no quit key ends the loop: the quit handler is not
\* reached, Escape returns to Normal mode with the loop going on, a typed
\* rune (the 'q' included) leaves the program in edit mode, and a step
\* that ends the loop from edit mode is a commit that returned an error.
\* Escape is handled in every state the loop waits in, and in Normal mode
\* it ends the loop with no error: two Escapes in a row end the loop.
C20_QuitOnlyInNormal ==
    [][/\ Edit => (~ENABLED NormalQuit /\ ENABLED EditEscape)
       /\ Normal => ENABLED NormalQuit
       /\ EditEscape => (pc' = "loop" /\ mode' = "normal" /\ err' = "")
       /\ NormalQuit => (pc' = "exited" /\ err' = "")
       /\ EditRune => (pc' = "loop" /\ mode' = "edit")
       /\ (Edit /\ pc' = "exited") =>
            /\ err' \in {"store", "scan_null", "invalid state"}
            /\ \E o \in Outcomes : Commit(o[1], o[2], o[3])]_vars

\* C20 witness: edit mode was entered and left by Escape, and the next
\* Escape ended the loop with no error and no Exec.
C20_Witness ==
    /\ pc = "exited"
    /\ err = ""
    /\ mode = "normal"
    /\ editCol = 1
    /\ editBuffer = <<>>
    /\ nExec = 0

====
